---- MODULE Spec2Model ----
(***************************************************************************)
(* Model of the two Streamlit scripts of derivative-formulas-app:          *)
(*   option_delta_app.py  - Black-Scholes Delta lookup                     *)
(*   derivative_app.py    - formula cards and quizzes                      *)
(*                                                                         *)
(* Number representation.  Python floats are modelled in fixed point:      *)
(*   prices and strikes      whole dollars                                 *)
(*   Delta, sigma, r         units of 1/10000   (1.0 = 10000)              *)
(*   time to expiry T        whole days; T = days / 365 as in the code     *)
(*   wall-clock time         ticks, TicksPerDay ticks to a calendar day    *)
(* np.log, np.sqrt and scipy's norm.cdf are library functions; they are    *)
(* modelled by integer approximations (series, integer root, table).       *)
(*                                                                         *)
(* Specifications:                                                         *)
(*   Spec      option_delta_app.py as a Streamlit app: every user event    *)
(*             runs the whole script again                                 *)
(*   SpecFn    the functions of option_delta_app.py on drawn inputs        *)
(*   SpecQuiz  the Practice Quiz of derivative_app.py                      *)
(***************************************************************************)
EXTENDS Integers, Sequences, FiniteSets

VARIABLES
    fn,           \* the last evaluation of one of the script's functions
    ticker,       \* st.text_input state
    option_type,  \* st.selectbox state
    strikeWidget, \* st.number_input state (None while it has none)
    now,          \* wall-clock time in ticks
    view,         \* what the last run of option_delta_app.py rendered
    lastEvent,    \* the user event that triggered the last run
    choice,       \* derivative_app.py: the radio selections, one per question
    checkedRight, \* history: questions the user checked with the right answer selected
    quizView      \* what the last run of the Practice Quiz rendered

vars == <<fn, ticker, option_type, strikeWidget, now, view, lastEvent,
          choice, checkedRight, quizView>>

\* Python's None and a present value
None == <<>>

Some(x) == <<x>>

Value(o) == o[1]

-----------------------------------------------------------------------------
(* Bounds of the model *)

TicksPerDay == 3
MaxDays == 3
MaxChain == 4
MaxNow == 3
MaxPicks == 2

-----------------------------------------------------------------------------
(* Program constants *)

One == 10000
Half == 5000
RiskFreeRate == 500
VolFloor == 1000
DaysPerYear == 365
MaxButtons == 12
ItmThreshold == 7000
AtmThreshold == 3000
DefaultStrike == 100

-----------------------------------------------------------------------------
(* Library arithmetic *)

Abs(x) == IF x < 0 THEN -x ELSE x

Max2(a, b) == IF a > b THEN a ELSE b

Min2(a, b) == IF a < b THEN a ELSE b

RECURSIVE SqrtSearch(_, _, _)
SqrtSearch(n, lo, hi) ==
    IF lo >= hi THEN lo
    ELSE LET mid == (lo + hi + 1) \div 2
         IN  IF mid * mid <= n THEN SqrtSearch(n, mid, hi)
             ELSE SqrtSearch(n, lo, mid - 1)

\* floor of the square root
ISqrt(n) == SqrtSearch(n, 0, Min2(n, 46340))

\* np.sqrt(T) in 1/1000, T = days / 365
SqrtT(days) == ISqrt((days * 1000000) \div DaysPerYear)

\* np.log(S / K) in 1/1000: 2 * atanh(z), z = (S - K) / (S + K), to z^5
LnRatio(S, K) ==
    LET z  == (Abs(S - K) * 1000) \div (S + K)
        z3 == (((z * z) \div 1000) * z) \div 1000
        z5 == (((z3 * z) \div 1000) * z) \div 1000
        m  == 2 * (z + z3 \div 3 + z5 \div 5)
    IN  IF S >= K THEN m ELSE -m

\* norm.cdf at 0, 0.25, ..., 4.0
CdfTable == <<5000, 5987, 6915, 7734, 8413, 8944, 9332, 9599, 9772,
              9878, 9938, 9970, 9987, 9994, 9998, 9999, 10000>>

\* norm.cdf(x), x in 1/100, result in 1/10000
NormCdf(x) ==
    LET a == Abs(x)
        i == a \div 25
        p == IF i >= 16 THEN One
             ELSE CdfTable[i + 1]
                  + ((CdfTable[i + 2] - CdfTable[i + 1]) * (a - 25 * i)) \div 25
    IN  IF x >= 0 THEN p ELSE One - p

Lower(s) == IF s = "Call" THEN "call" ELSE IF s = "Put" THEN "put" ELSE s

-----------------------------------------------------------------------------
(* black_scholes_delta *)

ExpiredDeltaMut(S, K, ty) ==
    IF ty = "call" /\ S >= K THEN One
    ELSE IF ty = "put" /\ S <= K THEN 0
    ELSE Half

\* the T <= 0 branch
ExpiredDelta(S, K, ty) ==
    IF ty = "call" /\ S > K THEN One
    ELSE IF ty = "put" /\ S < K THEN 0
    ELSE Half

\* d1 in 1/100
D1(S, K, days, r, sigma) ==
    LET drift == ((r * 100 + (sigma * sigma) \div 200) * days) \div DaysPerYear
        num   == LnRatio(S, K) * 1000 + drift
        den   == sigma * SqrtT(days)
        q     == (Abs(num) * 1000) \div den
    IN  IF num >= 0 THEN q ELSE -q

PutBranchMut(d1) == One - NormCdf(d1)

PutBranch(d1) == NormCdf(d1) - One

black_scholes_delta(S, K, days, r, sigma, ty) ==
    IF days <= 0 THEN ExpiredDelta(S, K, ty)
    ELSE IF Lower(ty) = "call" THEN NormCdf(D1(S, K, days, r, sigma))
    ELSE PutBranch(D1(S, K, days, r, sigma))

-----------------------------------------------------------------------------
(* get_option_delta *)

\* (exp_date - today).days: datetime.strptime gives midnight of the expiration
\* date, timedelta.days is the floor of the difference in days
DaysToExpiry(expDay, t) == (expDay * TicksPerDay - t) \div TicksPerDay

SigmaUsedMut(volatility, hist_vol) ==
    IF volatility = None THEN hist_vol ELSE Value(volatility)

\* volatility = max(hist_vol, 0.1) when volatility is None
SigmaUsed(volatility, hist_vol) ==
    IF volatility = None THEN Max2(hist_vol, VolFloor) ELSE Value(volatility)

get_option_delta(current_price, expDay, t, strike, ty, volatility, hist_vol) ==
    LET days == DaysToExpiry(expDay, t)
    IN  IF days <= 0
        THEN [delta |-> None, second |-> "expired", days |-> days,
              bsArgs |-> None]
        ELSE LET sigma == SigmaUsed(volatility, hist_vol)
                 r     == RiskFreeRate
             IN  [delta  |-> Some(black_scholes_delta(current_price, strike,
                                                      days, r, sigma, ty)),
                  second |-> "price",
                  days   |-> days,
                  bsArgs |-> [S |-> current_price, K |-> strike, days |-> days,
                              r |-> r, sigma |-> sigma, ty |-> ty]]

-----------------------------------------------------------------------------
(* Nearest strike and Delta interpretation *)

Distances(strikes, strike) ==
    [i \in 1..Len(strikes) |-> Abs(strikes[i] - strike)]

\* the values (...).argsort()[:1] can take: argsort's default kind is
\* quicksort, which is not stable, so any position of the least distance
\* may come first
ArgsortHead(d) ==
    IF Len(d) = 0 THEN {<<>>}
    ELSE {<<i>> : i \in {j \in 1..Len(d) : \A k \in 1..Len(d) : d[j] <= d[k]}}

\* the possible values of `closest`, as sequences of row positions
Closest(strikes, strike) == ArgsortHead(Distances(strikes, strike))

Interpretation(ty, delta) ==
    IF ty = "Call"
    THEN IF delta > ItmThreshold THEN "ITM"
         ELSE IF delta > AtmThreshold THEN "ATM"
         ELSE "OTM"
    ELSE IF delta < -ItmThreshold THEN "ITM"
         ELSE IF delta > -AtmThreshold THEN "ATM"
         ELSE "OTM"

-----------------------------------------------------------------------------
(* Input sets *)

Prices == {95, 100, 104}
StrikeValues == {90, 95, 96, 98, 100, 105}
DesiredStrikes == {95, 97, 100}
Sigmas == {0, 400, 1000, 2500}
HistVols == {400, 1000, 2500}
Rates == {0, RiskFreeRate}
LowerTypes == {"call", "put"}
UiTypes == {"Call", "Put"}
FnDays == (-1..MaxDays) \cup {30, DaysPerYear}
ExpDays == (0..MaxDays) \cup {30}
Ticks == 0..(2 * TicksPerDay - 1)
DeltaSamples == {1000, AtmThreshold, 5000, ItmThreshold, 9000}

RECURSIVE SeqsUpTo(_, _)
SeqsUpTo(S, n) ==
    IF n = 0 THEN {<<>>}
    ELSE LET shorter == SeqsUpTo(S, n - 1)
         IN  shorter \cup {Append(q, x) : q \in shorter, x \in S}

-----------------------------------------------------------------------------
(* Evaluations of the functions on drawn inputs: one evaluation per          *)
(* behaviour, the functions keep no state between calls                      *)

deltaVars == <<ticker, option_type, strikeWidget, now, view, lastEvent>>

quizVars == <<choice, checkedRight, quizView>>

Fresh == fn.name = "none" /\ UNCHANGED <<deltaVars, quizVars>>

EvalBlackScholes ==
    /\ Fresh
    /\ \E S \in Prices, K \in StrikeValues, days \in FnDays, r \in Rates,
       sigma \in Sigmas, ty \in LowerTypes \cup UiTypes :
        /\ days <= 0 \/ sigma > 0
        /\ fn' = [name |-> "black_scholes_delta", S |-> S, K |-> K,
                  days |-> days, r |-> r, sigma |-> sigma, ty |-> ty,
                  result |-> black_scholes_delta(S, K, days, r, sigma, ty)]

\* both option types on the same (S, K, T, r, sigma)
EvalDeltaPair ==
    /\ Fresh
    /\ \E S \in Prices, K \in StrikeValues, days \in FnDays, r \in Rates,
       sigma \in Sigmas :
        /\ days <= 0 \/ sigma > 0
        /\ fn' = [name |-> "delta_pair", S |-> S, K |-> K,
                  days |-> days, r |-> r, sigma |-> sigma,
                  callDelta |-> black_scholes_delta(S, K, days, r, sigma, "call"),
                  putDelta  |-> black_scholes_delta(S, K, days, r, sigma, "put")]

\* option chains list each strike once, in increasing order
Increasing(q) == \A i \in 1..(Len(q) - 1) : q[i] < q[i + 1]

EvalClosest ==
    /\ Fresh
    /\ \E strikes \in {q \in SeqsUpTo(StrikeValues, MaxChain) : Increasing(q)},
       strike \in DesiredStrikes :
        \E rows \in Closest(strikes, strike) :
            fn' = [name |-> "closest", strikes |-> strikes, strike |-> strike,
                   rows |-> rows]

EvalInterpretation ==
    /\ Fresh
    /\ \E d \in DeltaSamples :
        fn' = [name |-> "interpretation", d |-> d,
               callLabel |-> Interpretation("Call", d),
               putLabel  |-> Interpretation("Put", -d)]

EvalGetOptionDelta ==
    /\ Fresh
    /\ \E price \in Prices, expDay \in ExpDays, t \in Ticks, strike \in StrikeValues,
       ty \in UiTypes, volatility \in {None, Some(400), Some(3000)}, hist_vol \in HistVols :
        fn' = [name |-> "get_option_delta", price |-> price, expDay |-> expDay,
               t |-> t, strike |-> strike, ty |-> ty,
               volatility |-> volatility, hist_vol |-> hist_vol,
               out |-> get_option_delta(price, expDay, t, strike, ty,
                                        volatility, hist_vol)]

-----------------------------------------------------------------------------
(* option_delta_app.py: the market data the script reads *)

Tickers == {"AAPL", "NOPT"}

\* stock.options: the listed expiration dates, as day numbers
Listed(tk) == IF tk = "AAPL" THEN <<0, 1, 30>> ELSE <<>>

\* stock.option_chain(exp).calls / .puts: the strikes of the rows
ChainStrikes(tk, exp, ty) ==
    IF exp = 1 THEN (IF ty = "Call" THEN <<90, 100>> ELSE <<>>)
    ELSE IF ty = "Call" THEN <<95, 100, 105>>
    ELSE <<96, 98>>

RunPrices == {95, 104}
RunHistVols == {400, 2500}

\* the calls of the script that can raise, in program order: stock.options,
\* stock.option_chain, the price shown, then in get_option_delta the price,
\* strptime, the 30-day history and black_scholes_delta, then the formatting
\* of the row's fields
FaultPoints == {"options", "chain", "spot", "price", "strptime", "hist_vol",
                "compute", "format"}

-----------------------------------------------------------------------------
(* option_delta_app.py: one run of the script *)

\* len(expirations) == 0
NoExpirations(expirations) == Len(expirations) = 0

\* expirations[:12]
Shown(expirations) == SubSeq(expirations, 1, Min2(Len(expirations), MaxButtons))

InitialSelectionMut(previous) == previous

\* selected_exp = None, at every run
InitialSelection(previous) == None

\* the loop over the buttons: the clicked one, if any, sets selected_exp
SelectedExp(expirations, clicked, previous) ==
    IF clicked # None /\ Value(clicked) \in 1..Len(Shown(expirations))
    THEN Some(Shown(expirations)[Value(clicked)])
    ELSE InitialSelection(previous)

\* options['strike'].iloc[len(options)//2] if len(options) > 0 else 100.0
StrikeDefault(options) ==
    IF Len(options) > 0 THEN options[Len(options) \div 2 + 1] ELSE DefaultStrike

\* st.number_input: the widget's state when it has one, else its default;
\* a widget without a key is identified by its arguments
NumberInput(widget, dflt) ==
    IF widget # None /\ widget.dflt = dflt THEN widget.value ELSE dflt

\* len(closest) > 0
HasRows(closest) == Len(closest) > 0

CaughtMut(step) == step \in {"options", "chain", "spot"}

\* the steps inside try: ... except Exception
Caught(step) == step \in FaultPoints

BlankView ==
    [buttons |-> <<>>, noDataError |-> FALSE, selected_exp |-> None,
     strike |-> None, row |-> None, infoShown |-> FALSE, invoked |-> FALSE,
     bsArgs |-> None, delta |-> None, label |-> None, expiredShown |-> FALSE,
     raised |-> None, excError |-> FALSE, crashed |-> FALSE, footer |-> FALSE]

\* the strike the run's number_input returns
RunStrike(tk, ty, selected, widget) ==
    NumberInput(widget, StrikeDefault(ChainStrikes(tk, Value(selected), ty)))

\* the values `closest` can take in a run (<<>> when the run does not get there)
RunClosest(tk, ty, clicked, previous, widget) ==
    LET selected == SelectedExp(Listed(tk), clicked, previous)
    IN  IF NoExpirations(Listed(tk)) \/ selected = None THEN {<<>>}
        ELSE Closest(ChainStrikes(tk, Value(selected), ty),
                     RunStrike(tk, ty, selected, widget))

\* the body of the try block
TryBody(tk, ty, clicked, previous, widget, t, price, hist_vol, fault, closest) ==
    LET expirations == Listed(tk)
        selected    == SelectedExp(expirations, clicked, previous)
        v1 == [BlankView EXCEPT !.buttons = Shown(expirations),
                                !.selected_exp = selected]
    IN  IF fault = "options" THEN [BlankView EXCEPT !.raised = Some(fault)]
        ELSE IF NoExpirations(expirations)
        THEN [BlankView EXCEPT !.noDataError = TRUE]
        ELSE IF selected = None THEN v1
        ELSE IF fault = "chain" THEN [v1 EXCEPT !.raised = Some(fault)]
        ELSE
        LET options == ChainStrikes(tk, Value(selected), ty)
            strike  == RunStrike(tk, ty, selected, widget)
            v2      == [v1 EXCEPT !.strike = Some(strike)]
        IN  IF ~HasRows(closest) THEN v2
            ELSE
            LET row == options[closest[1]]
                v3  == [v2 EXCEPT !.row = Some(row)]
                v4  == [v3 EXCEPT !.infoShown = TRUE, !.invoked = TRUE]
                out == get_option_delta(price, Value(selected), t, row, ty,
                                        None, hist_vol)
            IN  IF fault = "spot" THEN [v3 EXCEPT !.raised = Some(fault)]
                ELSE IF fault \in {"price", "strptime"}
                THEN [v4 EXCEPT !.raised = Some(fault)]
                ELSE IF out.delta = None THEN [v4 EXCEPT !.expiredShown = TRUE]
                ELSE IF fault \in {"hist_vol", "compute"}
                THEN [v4 EXCEPT !.raised = Some(fault)]
                ELSE [v4 EXCEPT !.bsArgs = out.bsArgs,
                                !.delta = out.delta,
                                !.label = Some(Interpretation(ty, Value(out.delta))),
                                !.raised = IF fault = "format" THEN Some(fault)
                                           ELSE None]

\* the whole script: the try block, the except clause and the footer
Script(tk, ty, clicked, previous, widget, t, price, hist_vol, fault, closest) ==
    LET body == TryBody(tk, ty, clicked, previous, widget, t, price, hist_vol,
                        fault, closest)
    IN  IF body.raised = None THEN [body EXCEPT !.footer = TRUE]
        ELSE IF Caught(Value(body.raised))
        THEN [body EXCEPT !.excError = TRUE, !.footer = TRUE]
        ELSE [body EXCEPT !.crashed = TRUE]

\* the number_input's state after a run: kept while the widget is rendered
WidgetAfter(tk, ty, v) ==
    IF v.strike = None THEN None
    ELSE [dflt  |-> StrikeDefault(ChainStrikes(tk, Value(v.selected_exp), ty)),
          value |-> Value(v.strike)]

\* the user event behind a run, and the expiration shown when it was made
Event(type, strike) ==
    [type |-> type, strike |-> strike, prevSelected |-> view.selected_exp,
     prevDelta |-> view.delta # None]

AnyQuote == CHOOSE q \in RunPrices \X RunHistVols : TRUE

\* what the market data source answers in a run: <<price, hist_vol, fault>>.
\* Without a selected expiration the run calls stock.options only; a run
\* that raises before the Delta is computed shows nothing that depends on
\* the price or the volatility, so one quote stands for all of them there.
Answers(selected) ==
    IF selected = None
    THEN {<<AnyQuote[1], AnyQuote[2], f>> : f \in {"none", "options"}}
    ELSE {<<q[1], q[2], f>> : q \in RunPrices \X RunHistVols,
                              f \in {"none", "format"}}
         \cup {<<AnyQuote[1], AnyQuote[2], f>> : f \in FaultPoints \ {"format"}}

\* a run of the script with the widget states tk, ty, widget and one click
Run(tk, ty, clicked, widget, event) ==
    \E answer \in Answers(SelectedExp(Listed(tk), clicked, view.selected_exp)) :
        \E closest \in RunClosest(tk, ty, clicked, view.selected_exp, widget) :
            LET v == Script(tk, ty, clicked, view.selected_exp, widget, now,
                            answer[1], answer[2], answer[3], closest)
            IN  /\ UNCHANGED <<now, fn, quizVars>>
                /\ ticker' = tk
                /\ option_type' = ty
                /\ view' = v
                /\ strikeWidget' = WidgetAfter(tk, ty, v)
                /\ lastEvent' = event

\* the browser reloads or the user presses rerun
Rerun == Run(ticker, option_type, None, strikeWidget, Event("rerun", None))

EditTicker ==
    \E tk \in Tickers \ {ticker} :
        Run(tk, option_type, None, strikeWidget, Event("edit_ticker", None))

SelectOptionType ==
    \E ty \in UiTypes \ {option_type} :
        Run(ticker, ty, None, strikeWidget, Event("select_type", None))

ClickExpiration ==
    \E i \in 1..Len(view.buttons) :
        Run(ticker, option_type, Some(i), strikeWidget, Event("click_exp", None))

EditStrike ==
    \E x \in DesiredStrikes :
        /\ strikeWidget # None
        /\ x # strikeWidget.value
        /\ Run(ticker, option_type, None, [strikeWidget EXCEPT !.value = x],
               Event("edit_strike", Some(x)))

\* time passes between two runs
Tick ==
    /\ now < MaxNow
    /\ now' = now + 1
    /\ UNCHANGED <<ticker, option_type, strikeWidget, view, lastEvent>>
    /\ UNCHANGED <<fn, quizVars>>

\* the first run, on page load: ticker "AAPL", type "Call", nothing clicked
FirstView(t, price, hist_vol, fault) ==
    Script("AAPL", "Call", None, None, None, t, price, hist_vol, fault, <<>>)

InitDelta ==
    /\ ticker = "AAPL"
    /\ option_type = "Call"
    /\ strikeWidget = None
    /\ now \in 0..(TicksPerDay - 1)
    /\ \E fault \in {"none", "options"} :
          view = FirstView(now, AnyQuote[1], AnyQuote[2], fault)
    /\ lastEvent = [type |-> "load", strike |-> None, prevSelected |-> None,
                    prevDelta |-> FALSE]

\* the app left alone after an undisturbed first run
IdleDelta ==
    /\ ticker = "AAPL"
    /\ option_type = "Call"
    /\ strikeWidget = None
    /\ now = 0
    /\ view = FirstView(0, AnyQuote[1], AnyQuote[2], "none")
    /\ lastEvent = [type |-> "load", strike |-> None, prevSelected |-> None,
                    prevDelta |-> FALSE]

-----------------------------------------------------------------------------
(* derivative_app.py: the Practice Quiz *)

questions ==
    << [q |-> "d/dx(x^4) = ?", a |-> "4x^3",
        options |-> <<"4x^3", "x^4", "4x^5", "x^3">>],
       [q |-> "d/dx(sin x) = ?", a |-> "cos x",
        options |-> <<"-sin x", "cos x", "sin x", "-cos x">>],
       [q |-> "d/dx(e^x) = ?", a |-> "e^x",
        options |-> <<"e^x", "x*e^(x-1)", "x*e^x", "ln x">>],
       [q |-> "d/dx(ln x) = ?", a |-> "1/x",
        options |-> <<"x", "1/x", "ln x", "0">>],
       [q |-> "d/dx(2^x) = ?", a |-> "2^x * ln 2",
        options |-> <<"2^x", "2^x * ln 2", "x*2^(x-1)", "2^x / ln 2">>] >>

\* the options the modelled user picks among: the first MaxPicks of each radio
Picks(i) == {questions[i].options[k] : k \in 1..Min2(MaxPicks, 4)}

\* st.button(f"Check Q{i+1}"): true only in the run its click triggered
CheckPressed(clicked, i) == clicked = Some(i)

\* the loop over the questions: `score` after questions 1..n of a run
RECURSIVE ScoreAfter(_, _, _)
ScoreAfter(ch, clicked, n) ==
    IF n = 0 THEN 0
    ELSE ScoreAfter(ch, clicked, n - 1)
         + (IF CheckPressed(clicked, n) /\ ch[n] = questions[n].a THEN 1 ELSE 0)

\* one run of the Practice Quiz branch; clicked is None, Some(i) for
\* "Check Qi" or Some(0) for "Show Score"
QuizScript(ch, clicked) ==
    LET score == ScoreAfter(ch, clicked, Len(questions))
    IN  [checked |-> IF clicked # None /\ Value(clicked) \in 1..Len(questions)
                     THEN clicked ELSE None,
         correct |-> score > 0,
         scoreShown |-> IF clicked = Some(0) THEN Some(score) ELSE None]

SelectAnswer ==
    \E i \in 1..Len(questions) :
        \E o \in Picks(i) \ {choice[i]} :
            /\ choice' = [choice EXCEPT ![i] = o]
            /\ quizView' = QuizScript(choice', None)
            /\ UNCHANGED <<checkedRight, fn, deltaVars>>

ClickCheck ==
    \E i \in 1..Len(questions) :
        /\ quizView' = QuizScript(choice, Some(i))
        /\ checkedRight' = IF choice[i] = questions[i].a
                           THEN checkedRight \cup {i}
                           ELSE checkedRight \ {i}
        /\ UNCHANGED <<choice, fn, deltaVars>>

ClickShowScore ==
    /\ quizView' = QuizScript(choice, Some(0))
    /\ UNCHANGED <<choice, checkedRight, fn, deltaVars>>

-----------------------------------------------------------------------------
(* Specifications *)

\* st.radio without index selects the first option
IdleQuiz ==
    /\ choice = [i \in 1..Len(questions) |-> questions[i].options[1]]
    /\ checkedRight = {}
    /\ quizView = QuizScript(choice, None)

IdleFn == fn = [name |-> "none"]

\* option_delta_app.py after its first run
Init == IdleFn /\ InitDelta /\ IdleQuiz

Next ==
    \/ Rerun
    \/ EditTicker
    \/ SelectOptionType
    \/ ClickExpiration
    \/ EditStrike
    \/ Tick

Spec == Init /\ [][Next]_vars

InitFn == IdleFn /\ IdleDelta /\ IdleQuiz

NextFn ==
    \/ EvalBlackScholes
    \/ EvalDeltaPair
    \/ EvalClosest
    \/ EvalInterpretation
    \/ EvalGetOptionDelta

SpecFn == InitFn /\ [][NextFn]_vars

\* derivative_app.py in Practice Quiz mode after its first run
InitQuiz == IdleFn /\ IdleDelta /\ IdleQuiz

NextQuiz ==
    \/ SelectAnswer
    \/ ClickCheck
    \/ ClickShowScore

SpecQuiz == InitQuiz /\ [][NextQuiz]_vars

-----------------------------------------------------------------------------
(* Claims about the functions, checked under SpecFn *)

\* C1: with T <= 0 and a type in {call, put}, black_scholes_delta returns
\* exactly 1.0 for a call with S > K, exactly 0.0 for a put with S < K and
\* exactly 0.5 otherwise, whatever sigma is (sigma = 0 included).
C1_ExpiredPolicy ==
    (fn.name = "black_scholes_delta" /\ fn.days <= 0 /\ fn.ty \in LowerTypes)
    => /\ fn.result = IF fn.ty = "call" /\ fn.S > fn.K THEN 10000
                       ELSE IF fn.ty = "put" /\ fn.S < fn.K THEN 0
                       ELSE 5000
       /\ \A sigma \in Sigmas :
            black_scholes_delta(fn.S, fn.K, fn.days, fn.r, sigma, fn.ty) = fn.result

C1_Witness ==
    /\ fn.name = "black_scholes_delta"
    /\ fn.days <= 0
    /\ fn.ty = "put"
    /\ fn.S < fn.K
    /\ fn.sigma = 0
    /\ fn.result = 0

\* C2 as stated: for identical (S, K, T, r, sigma), with no restriction on T,
\* PutDelta = CallDelta - 1.
C2_ParityAnyT ==
    fn.name = "delta_pair" => fn.putDelta = fn.callDelta - One

\* C2 amended: for identical (S, K, T, r, sigma) with T > 0,
\* PutDelta = CallDelta - 1, so PutDelta + (1 - CallDelta) = 0.
C2_ParityBeforeExpiry ==
    (fn.name = "delta_pair" /\ fn.days > 0)
    => /\ fn.putDelta = fn.callDelta - One
       /\ fn.putDelta + (One - fn.callDelta) = 0

C2_Witness ==
    /\ fn.name = "delta_pair"
    /\ fn.days > 0
    /\ fn.callDelta > 0
    /\ fn.callDelta < One
    /\ fn.putDelta < 0

\* C3: for a non-empty sequence of strikes the selection is exactly one row,
\* its strike is nearest to the desired strike, and among several nearest
\* rows it is the first of the input ordering.
C3_FirstNearest ==
    (fn.name = "closest" /\ Len(fn.strikes) > 0)
    => /\ Len(fn.rows) = 1
       /\ \A k \in 1..Len(fn.strikes) :
            /\ Abs(fn.strikes[fn.rows[1]] - fn.strike)
                   <= Abs(fn.strikes[k] - fn.strike)
            /\ Abs(fn.strikes[k] - fn.strike)
                   = Abs(fn.strikes[fn.rows[1]] - fn.strike)
               => fn.rows[1] <= k

\* C4: get_option_delta returns (None, message) without evaluating
\* black_scholes_delta when the expiration date is not in the future, and a
\* numeric Delta with T > 0 when it is, the next calendar day included.
C4_ExpiryGuard ==
    fn.name = "get_option_delta"
    => IF fn.expDay * TicksPerDay > fn.t
       THEN fn.out.delta # None /\ fn.out.days > 0
       ELSE fn.out.delta = None /\ fn.out.bsArgs = None

\* C5: a call with Delta d and a put with Delta -d get the same label.
C5_LabelByMagnitude ==
    fn.name = "interpretation" => fn.callLabel = fn.putLabel

-----------------------------------------------------------------------------
(* Claims about the Delta workflow, checked under Spec *)

\* C7: a run invokes get_option_delta only if the ticker lists at least one
\* expiration, an expiration was selected in this run and the chain of the
\* requested side is non-empty; for a ticker without listed expirations an
\* error is displayed and get_option_delta is not invoked.
C7_DeltaOnlyForSelection ==
    /\ view.invoked
       => /\ Len(Listed(ticker)) > 0
          /\ lastEvent.type = "click_exp"
          /\ view.selected_exp # None
          /\ Len(ChainStrikes(ticker, Value(view.selected_exp), option_type)) > 0
    /\ Len(Listed(ticker)) = 0
       => /\ view.noDataError \/ view.excError
          /\ ~view.invoked

C7_Witness ==
    /\ view.invoked
    /\ view.delta # None
    /\ lastEvent.type = "click_exp"

\* C9: an exception raised at any step of the workflow is caught at the top
\* level and shown as an error message, and the run goes on to the footer.
C9_ExceptionsCaught ==
    /\ view.footer
    /\ ~view.crashed
    /\ view.raised # None => view.excError

C9_Witness ==
    /\ view.raised = Some("hist_vol")
    /\ view.invoked
    /\ view.excError
    /\ view.footer

\* C10: after the user clicked an expiration, saw its Delta and then edited
\* the strike input, the new view still shows the option information and
\* Delta for that expiration, for the contract nearest to the edited strike.
C10_SelectionPersists ==
    (lastEvent.type = "edit_strike" /\ lastEvent.prevDelta /\ view.raised = None)
    => /\ view.selected_exp = lastEvent.prevSelected
       /\ view.infoShown
       /\ view.delta # None \/ view.expiredShown
       /\ view.row # None
       /\ \A k \in DOMAIN ChainStrikes(ticker, Value(view.selected_exp), option_type) :
            Abs(Value(view.row) - Value(lastEvent.strike))
              <= Abs(ChainStrikes(ticker, Value(view.selected_exp), option_type)[k]
                     - Value(lastEvent.strike))

-----------------------------------------------------------------------------
(* Claim about the Practice Quiz, checked under SpecQuiz *)

\* C6: "Show Score" displays the number of questions the user has checked
\* with the canonical answer selected, a number between 0 and 5.
C6_ScoreCountsChecked ==
    quizView.scoreShown # None
    => /\ Value(quizView.scoreShown) = Cardinality(checkedRight)
       /\ Value(quizView.scoreShown) \in 0..5

====
